---------------------------- MODULE Spec2Model ----------------------------
(***************************************************************************)
(* Model of the flexible JSON parser of mcp-cozodb (utils/json-parser.ts): *)
(* stripJsonComments, parseJsonc, parseJsonl, detectJsonFormat,            *)
(* hasComments and parseFlexibleJson.                                      *)
(*                                                                         *)
(* A text is a sequence of one-character strings.  Positions are 0-based   *)
(* as in the TypeScript source; At(s, i) is s[i] of the source.            *)
(***************************************************************************)
EXTENDS Naturals, Sequences, FiniteSets, TLC

VARIABLES input, call, ret, task, frame, rateLimitStore, now, log, windowMs, max,
          QUERY_TIMEOUT_MS, clock, exec, dbRun, timer, stored

\* The caller of the parser functions.
callerVars == <<input, call, ret>>

\* Calls in progress and the local variables of each.
taskVars == <<task, frame>>

\* The rate limiter of the HTTP transport, its clock and its requests.
limiterVars == <<rateLimitStore, now, log, windowMs, max>>

\* The calls of executeQuery, their database calls and timers, the time
\* and the mutations the database has applied.
queryVars == <<QUERY_TIMEOUT_MS, clock, exec, dbRun, timer, stored>>

vars == <<input, call, ret, task, frame, rateLimitStore, now, log, windowMs, max,
          QUERY_TIMEOUT_MS, clock, exec, dbRun, timer, stored>>

---------------------------------------------------------------------------
(* Characters.  FF, the form feed, stands for the whitespace that trim and *)
(* trimStart remove and JSON.parse does not accept.                       *)

DQUOTE    == "\""
BACKSLASH == "\\"
SLASH     == "/"
STAR      == "*"
LF        == "\n"
FF        == "\f"
SP        == " "
DIGIT     == "1"
LBRACKET  == "["
RBRACKET  == "]"

\* Longest input text drawn by Init.
MaxLen == 4

\* The characters input texts are drawn from.
Alphabet == {DQUOTE, BACKSLASH, SLASH, STAR, LF, FF, SP, DIGIT, LBRACKET, RBRACKET}

\* Longest input text drawn by InitScan.
MaxScanLen == 6

\* The characters the comment scanner tells apart.
ScanAlphabet == {DQUOTE, BACKSLASH, SLASH, STAR, LF}

\* Most parts an input text drawn by InitParts is put together from.
MaxParts == 4

\* The parts: comment markers, whitespace, and characters of a value.
Parts == {<<SLASH, SLASH>>, <<SLASH, STAR>>, <<STAR, SLASH>>,
          <<SP>>, <<LF>>, <<SLASH>>, <<DIGIT>>, <<DQUOTE>>}

\* The text made of the parts ps, in order.
RECURSIVE Concat(_)
Concat(ps) == IF ps = <<>> THEN <<>> ELSE Head(ps) \o Concat(Tail(ps))

\* All texts over A of length at most n.
TextsOver(A, n) == UNION {[1..k -> A] : k \in 0..n}

---------------------------------------------------------------------------
(* String primitives of the platform, as the source uses them *)

At(s, i) == s[i + 1]

\* s.slice(from) for 0 <= from
SliceFrom(s, from) == IF from >= Len(s) THEN <<>> ELSE SubSeq(s, from + 1, Len(s))

\* s.slice(from, to)
Slice(s, from, to) == IF from >= to THEN <<>> ELSE SubSeq(s, from + 1, to)

\* ECMAScript WhiteSpace and LineTerminator code points (those of the
\* alphabet): what String.prototype.trim / trimStart remove.
JsWhiteSpace == {SP, LF, FF}

\* JSON insignificant whitespace (those of the alphabet): what JSON.parse
\* skips.  Form feed is not JSON whitespace.
JsonWhiteSpace == {SP, LF}

\* Number of leading characters of s that are in W.
RECURSIVE LeadingIn(_, _, _)
LeadingIn(s, W, k) ==
    IF k < Len(s) /\ At(s, k) \in W THEN LeadingIn(s, W, k + 1) ELSE k

\* Number of trailing characters of s that are in W.
RECURSIVE TrailingIn(_, _, _)
TrailingIn(s, W, k) ==
    IF k < Len(s) /\ s[Len(s) - k] \in W THEN TrailingIn(s, W, k + 1) ELSE k

trimStart(s) == SliceFrom(s, LeadingIn(s, JsWhiteSpace, 0))

trim(s) ==
    LET t == trimStart(s)
    IN  Slice(t, 0, Len(t) - TrailingIn(t, JsWhiteSpace, 0))

startsWith(s, p) == Len(s) >= Len(p) /\ SubSeq(s, 1, Len(p)) = p

\* s.split("\n"): the pieces between line feeds, always at least one piece.
RECURSIVE SplitFrom(_, _, _)
SplitFrom(s, start, i) ==
    IF i >= Len(s) THEN <<Slice(s, start, Len(s))>>
    ELSE IF At(s, i) = LF
         THEN <<Slice(s, start, i)>> \o SplitFrom(s, i + 1, i + 1)
         ELSE SplitFrom(s, start, i + 1)

split(s) == SplitFrom(s, 0, 0)

---------------------------------------------------------------------------
(* Outcomes of a call: a returned value or a thrown SyntaxError *)

NoValue == <<"none", <<>>>>
NoMsg   == <<>>

Returned(v) == [kind |-> "value", value |-> v, line |-> 0, msg |-> NoMsg]

\* new SyntaxError(...): line is the number embedded in a JSONL message
\* (0 when the message carries none), msg the standard parser's message.
Thrown(line, msg) ==
    [kind |-> "SyntaxError", value |-> NoValue, line |-> line, msg |-> msg]

Num(n)      == <<"num", n>>
Str(chars)  == <<"str", chars>>
Arr(elems)  == <<"arr", elems>>
TextOf(s)   == <<"text", s>>
Label(f)    == <<"label", f>>

---------------------------------------------------------------------------
(* JSON.parse: the standard parser, on texts over the alphabet.           *)
(* Over these characters the JSON grammar is: a value is a number (a run  *)
(* of digits), a string, or an array of at most one element (the alphabet *)
(* holds no comma), surrounded by JSON whitespace.                        *)

\* The parser's message for a failure at position pos of text.
ParserMessage(text, pos) ==
    IF pos >= Len(text) THEN <<"Unexpected end of JSON input">>
    ELSE <<"Unexpected token", At(text, pos), pos>>

Ok(next, val) == [ok |-> TRUE, next |-> next, val |-> val]
Fail(pos)     == [ok |-> FALSE, next |-> pos, val |-> NoValue]

\* The number written as n digits 1.
RECURSIVE Ones(_)
Ones(n) == IF n = 0 THEN 0 ELSE 10 * Ones(n - 1) + 1

\* Escapes the JSON grammar allows after a backslash (those of the alphabet).
JsonEscapable == {DQUOTE, BACKSLASH, SLASH}

\* Characters a JSON string may not hold unescaped: control characters.
JsonControl == {LF, FF}

\* The rest of a string literal whose opening quote precedes position i.
RECURSIVE ParseString(_, _, _)
ParseString(s, i, acc) ==
    IF i >= Len(s) THEN Fail(i)
    ELSE LET c == At(s, i)
         IN  IF c = DQUOTE THEN Ok(i + 1, Str(acc))
             ELSE IF c = BACKSLASH
                  THEN IF i + 1 < Len(s) /\ At(s, i + 1) \in JsonEscapable
                       THEN ParseString(s, i + 2, Append(acc, At(s, i + 1)))
                       ELSE Fail(i + 1)
             ELSE IF c \in JsonControl THEN Fail(i)
             ELSE ParseString(s, i + 1, Append(acc, c))

\* A value starting exactly at position i.
RECURSIVE ParseValue(_, _)
ParseValue(s, i) ==
    IF i >= Len(s) THEN Fail(i)
    ELSE LET c == At(s, i)
         IN  IF c = DIGIT
             THEN LET j == LeadingIn(s, {DIGIT}, i)
                  IN  Ok(j, Num(Ones(j - i)))
             ELSE IF c = DQUOTE THEN ParseString(s, i + 1, <<>>)
             ELSE IF c = LBRACKET
                  THEN LET k == LeadingIn(s, JsonWhiteSpace, i + 1)
                       IN  IF k < Len(s) /\ At(s, k) = RBRACKET
                           THEN Ok(k + 1, Arr(<<>>))
                           ELSE LET r == ParseValue(s, k)
                                    m == LeadingIn(s, JsonWhiteSpace, r.next)
                                IN  IF ~r.ok THEN r
                                    ELSE IF m < Len(s) /\ At(s, m) = RBRACKET
                                         THEN Ok(m + 1, Arr(<<r.val>>))
                                         ELSE Fail(m)
             ELSE Fail(i)

JSONparse(text) ==
    LET k == LeadingIn(text, JsonWhiteSpace, 0)
        r == ParseValue(text, k)
        m == LeadingIn(text, JsonWhiteSpace, r.next)
    IN  IF ~r.ok THEN Thrown(0, ParserMessage(text, r.next))
        ELSE IF m >= Len(text) THEN Returned(r.val)
        ELSE Thrown(0, ParserMessage(text, m))

---------------------------------------------------------------------------
(* stripJsonComments *)

\* The inner while loop of the string-literal branch: copies from position
\* i, the character after the opening quote.  Gives the cursor and result
\* when the loop is left, by its condition or by the break.
\* Mutant: a backslash is copied like any character, so the quote after it
\* ends the literal.
RECURSIVE StringLoopNoEscape(_, _, _)
StringLoopNoEscape(inp, i, result) ==
    IF i >= Len(inp) THEN [i |-> i, result |-> result]
    ELSE LET sc == At(inp, i)
             r1 == Append(result, sc)
         IN  IF sc = DQUOTE THEN [i |-> i, result |-> r1]
             ELSE StringLoopNoEscape(inp, i + 1, r1)

RECURSIVE StringLoop(_, _, _)
StringLoop(inp, i, result) ==
    IF i >= Len(inp) THEN [i |-> i, result |-> result]
    ELSE LET sc == At(inp, i)
             r1 == Append(result, sc)
         IN  IF sc = BACKSLASH
             THEN StringLoop(inp, i + 2,
                             IF i + 1 < Len(inp)
                             THEN Append(r1, At(inp, i + 1)) ELSE r1)
             ELSE IF sc = DQUOTE THEN [i |-> i, result |-> r1]
             ELSE StringLoop(inp, i + 1, r1)

\* Mutant: the line comment loop also passes over the line feed.
RECURSIVE LineCommentLoopPastLf(_, _)
LineCommentLoopPastLf(inp, i) ==
    IF i >= Len(inp) THEN i
    ELSE IF At(inp, i) = LF THEN i + 1
    ELSE LineCommentLoopPastLf(inp, i + 1)

\* while (i < len && input[i] !== "\n") i++
RECURSIVE LineCommentLoop(_, _)
LineCommentLoop(inp, i) ==
    IF i < Len(inp) /\ At(inp, i) # LF THEN LineCommentLoop(inp, i + 1) ELSE i

\* while (i + 1 < len && !(input[i] === "*" && input[i + 1] === "/")) i++
RECURSIVE BlockCommentLoop(_, _)
BlockCommentLoop(inp, i) ==
    IF i + 1 < Len(inp) /\ ~(At(inp, i) = STAR /\ At(inp, i + 1) = SLASH)
    THEN BlockCommentLoop(inp, i + 1) ELSE i

\* Mutant: the string-literal branch is missing, quotes are copied like
\* any other character.
StripStepNoStrings(inp, st) ==
    LET i  == st.i
        ch == At(inp, i)
    IN  IF ch = SLASH /\ i + 1 < Len(inp) /\ At(inp, i + 1) = SLASH
        THEN [i |-> LineCommentLoop(inp, i + 2), result |-> st.result]
        ELSE IF ch = SLASH /\ i + 1 < Len(inp) /\ At(inp, i + 1) = STAR
        THEN [i |-> BlockCommentLoop(inp, i + 2) + 2, result |-> st.result]
        ELSE [i |-> i + 1, result |-> Append(st.result, ch)]

\* Mutant: the search for the closing marker starts at the star of the
\* opening marker, so that /*/ closes itself.
StripStepSelfClosing(inp, st) ==
    LET i  == st.i
        ch == At(inp, i)
    IN  IF ch = DQUOTE
        THEN LET s == StringLoop(inp, i + 1, Append(st.result, DQUOTE))
             IN  [i |-> s.i + 1, result |-> s.result]
        ELSE IF ch = SLASH /\ i + 1 < Len(inp) /\ At(inp, i + 1) = SLASH
        THEN [i |-> LineCommentLoop(inp, i + 2), result |-> st.result]
        ELSE IF ch = SLASH /\ i + 1 < Len(inp) /\ At(inp, i + 1) = STAR
        THEN [i |-> BlockCommentLoop(inp, i + 1) + 2, result |-> st.result]
        ELSE [i |-> i + 1, result |-> Append(st.result, ch)]

\* Mutant: a backslash outside string literals is dropped.
StripStepDropsBackslash(inp, st) ==
    LET i  == st.i
        ch == At(inp, i)
    IN  IF ch = DQUOTE
        THEN LET s == StringLoop(inp, i + 1, Append(st.result, DQUOTE))
             IN  [i |-> s.i + 1, result |-> s.result]
        ELSE IF ch = SLASH /\ i + 1 < Len(inp) /\ At(inp, i + 1) = SLASH
        THEN [i |-> LineCommentLoop(inp, i + 2), result |-> st.result]
        ELSE IF ch = SLASH /\ i + 1 < Len(inp) /\ At(inp, i + 1) = STAR
        THEN [i |-> BlockCommentLoop(inp, i + 2) + 2, result |-> st.result]
        ELSE IF ch = BACKSLASH
        THEN [i |-> i + 1, result |-> st.result]
        ELSE [i |-> i + 1, result |-> Append(st.result, ch)]

\* Mutant: a block comment is replaced by a space.
StripStepBlockToSpace(inp, st) ==
    LET i  == st.i
        ch == At(inp, i)
    IN  IF ch = DQUOTE
        THEN LET s == StringLoop(inp, i + 1, Append(st.result, DQUOTE))
             IN  [i |-> s.i + 1, result |-> s.result]
        ELSE IF ch = SLASH /\ i + 1 < Len(inp) /\ At(inp, i + 1) = SLASH
        THEN [i |-> LineCommentLoop(inp, i + 2), result |-> st.result]
        ELSE IF ch = SLASH /\ i + 1 < Len(inp) /\ At(inp, i + 1) = STAR
        THEN [i |-> BlockCommentLoop(inp, i + 2) + 2,
              result |-> Append(st.result, SP)]
        ELSE [i |-> i + 1, result |-> Append(st.result, ch)]

\* One iteration of the outer while loop, entered with i < len.
StripStep(inp, st) ==
    LET i  == st.i
        ch == At(inp, i)
    IN  IF ch = DQUOTE
        THEN LET s == StringLoop(inp, i + 1, Append(st.result, DQUOTE))
             IN  [i |-> s.i + 1, result |-> s.result]
        ELSE IF ch = SLASH /\ i + 1 < Len(inp) /\ At(inp, i + 1) = SLASH
        THEN [i |-> LineCommentLoop(inp, i + 2), result |-> st.result]
        ELSE IF ch = SLASH /\ i + 1 < Len(inp) /\ At(inp, i + 1) = STAR
        THEN [i |-> BlockCommentLoop(inp, i + 2) + 2, result |-> st.result]
        ELSE [i |-> i + 1, result |-> Append(st.result, ch)]

RECURSIVE StripLoop(_, _)
StripLoop(inp, st) ==
    IF st.i < Len(inp) THEN StripLoop(inp, StripStep(inp, st)) ELSE st.result

\* Mutant: the result is trimmed before it is returned.
stripJsonCommentsTrimmed(inp) == trim(StripLoop(inp, [i |-> 0, result |-> <<>>]))

stripJsonComments(inp) == StripLoop(inp, [i |-> 0, result |-> <<>>])

\* Mutant: a text that is empty or blank after stripping gives null.
parseJsoncNullOnEmpty(inp) ==
    LET stripped == stripJsonComments(inp)
    IN  IF Len(trim(stripped)) = 0 THEN Returned(<<"null", <<>>>>)
        ELSE JSONparse(stripped)

parseJsonc(inp) == JSONparse(stripJsonComments(inp))

---------------------------------------------------------------------------
(* parseJsonl *)

NonEmpty(line) == Len(line) > 0

\* Mutant: blank lines are not filtered out.
JsonlLinesNoFilter(inp) ==
    LET lines == split(inp)
    IN  [k \in 1..Len(lines) |-> trim(lines[k])]

\* Mutant: the lines are filtered but not trimmed.
JsonlLinesNoTrim(inp) ==
    LET lines == split(inp)
        kept  == {k \in 1..Len(lines) : Len(trim(lines[k])) > 0}
        RECURSIVE Pick(_)
        Pick(k) == IF k > Len(lines) THEN <<>>
                   ELSE (IF k \in kept THEN <<lines[k]>> ELSE <<>>) \o Pick(k + 1)
    IN  Pick(1)

\* input.split("\n").map(trim).filter(non-empty)
JsonlLines(inp) ==
    LET lines == split(inp)
    IN  SelectSeq([k \in 1..Len(lines) |-> trim(lines[k])], NonEmpty)

\* Mutant: a line that fails to parse is skipped and the rest returned.
RECURSIVE JsonlMapSkipBad(_, _, _)
JsonlMapSkipBad(lines, index, acc) ==
    IF index >= Len(lines) THEN Returned(Arr(acc))
    ELSE LET r == JSONparse(At(lines, index))
         IN  JsonlMapSkipBad(lines, index + 1,
                             IF r.kind = "value" THEN Append(acc, r.value)
                             ELSE acc)

\* The final .map((line, index) => ...) over the filtered lines, from
\* 0-based index on: the first line that fails to parse throws.
RECURSIVE JsonlMap(_, _, _)
JsonlMap(lines, index, acc) ==
    IF index >= Len(lines) THEN Returned(Arr(acc))
    ELSE LET r == JSONparse(At(lines, index))
         IN  IF r.kind = "value"
             THEN JsonlMap(lines, index + 1, Append(acc, r.value))
             ELSE Thrown(index + 1, r.msg)

parseJsonl(inp) == JsonlMap(JsonlLines(inp), 0, <<>>)

---------------------------------------------------------------------------
(* detectJsonFormat, hasComments, parseFlexibleJson *)

\* Mutant: inside a string a backslash is passed over alone, so the
\* character after it is looked at again.
RECURSIVE HasCommentsLoopNoSkip(_, _, _)
HasCommentsLoopNoSkip(inp, i, inString) ==
    IF i >= Len(inp) THEN FALSE
    ELSE LET ch == At(inp, i)
         IN  IF inString
             THEN IF ch = DQUOTE THEN HasCommentsLoopNoSkip(inp, i + 1, FALSE)
                  ELSE HasCommentsLoopNoSkip(inp, i + 1, TRUE)
             ELSE IF ch = DQUOTE THEN HasCommentsLoopNoSkip(inp, i + 1, TRUE)
                  ELSE IF ch = SLASH /\ i + 1 < Len(inp)
                          /\ (At(inp, i + 1) = SLASH \/ At(inp, i + 1) = STAR)
                       THEN TRUE
                  ELSE HasCommentsLoopNoSkip(inp, i + 1, FALSE)

\* Mutant: only // is looked for, /* is passed over.
RECURSIVE HasCommentsLoopLineOnly(_, _, _)
HasCommentsLoopLineOnly(inp, i, inString) ==
    IF i >= Len(inp) THEN FALSE
    ELSE LET ch == At(inp, i)
         IN  IF inString
             THEN IF ch = BACKSLASH THEN HasCommentsLoopLineOnly(inp, i + 2, TRUE)
                  ELSE IF ch = DQUOTE THEN HasCommentsLoopLineOnly(inp, i + 1, FALSE)
                  ELSE HasCommentsLoopLineOnly(inp, i + 1, TRUE)
             ELSE IF ch = DQUOTE THEN HasCommentsLoopLineOnly(inp, i + 1, TRUE)
                  ELSE IF ch = SLASH /\ i + 1 < Len(inp) /\ At(inp, i + 1) = SLASH
                       THEN TRUE
                  ELSE HasCommentsLoopLineOnly(inp, i + 1, FALSE)

\* The for loop of hasComments from position i with flag inString.
RECURSIVE HasCommentsLoop(_, _, _)
HasCommentsLoop(inp, i, inString) ==
    IF i >= Len(inp) THEN FALSE
    ELSE LET ch == At(inp, i)
         IN  IF inString
             THEN IF ch = BACKSLASH THEN HasCommentsLoop(inp, i + 2, TRUE)
                  ELSE IF ch = DQUOTE THEN HasCommentsLoop(inp, i + 1, FALSE)
                  ELSE HasCommentsLoop(inp, i + 1, TRUE)
             ELSE IF ch = DQUOTE THEN HasCommentsLoop(inp, i + 1, TRUE)
                  ELSE IF ch = SLASH /\ i + 1 < Len(inp)
                          /\ (At(inp, i + 1) = SLASH \/ At(inp, i + 1) = STAR)
                       THEN TRUE
                  ELSE HasCommentsLoop(inp, i + 1, FALSE)

\* Mutant: a marker counts wherever it stands, inside string literals too.
hasCommentsAnywhere(inp) ==
    \E k \in 0..(Len(inp) - 2) :
        At(inp, k) = SLASH /\ At(inp, k + 1) \in {SLASH, STAR}

hasComments(inp) == HasCommentsLoop(inp, 0, FALSE)

\* Mutant: every line counts, blank ones too.
NonBlankCountsAll(l) == TRUE

NonBlank(l) == Len(trim(l)) > 0

\* Mutant: only the comment at the top is looked for, not inline comments.
detectJsonFormatTopOnly(inp) ==
    LET trimmed == trimStart(inp)
        lines   == SelectSeq(split(trimmed), NonBlank)
    IN  IF startsWith(trimmed, <<SLASH, SLASH>>)
           \/ startsWith(trimmed, <<SLASH, STAR>>)
        THEN "jsonc"
        ELSE IF Len(lines) > 1 /\ JSONparse(lines[1]).kind = "value"
        THEN "jsonl"
        ELSE "json"

\* Mutant: the first line is not test-parsed; any text of several
\* non-blank lines is taken for JSONL.
detectJsonFormatNoTrial(inp) ==
    LET trimmed == trimStart(inp)
        lines   == SelectSeq(split(trimmed), NonBlank)
    IN  IF startsWith(trimmed, <<SLASH, SLASH>>)
           \/ startsWith(trimmed, <<SLASH, STAR>>)
        THEN "jsonc"
        ELSE IF hasComments(trimmed) THEN "jsonc"
        ELSE IF Len(lines) > 1
        THEN "jsonl"
        ELSE "json"

\* Mutant: the trial parse is not guarded; where it fails, its error gets
\* out of the function instead of a label.
detectJsonFormatNoCatch(inp) ==
    LET trimmed == trimStart(inp)
        lines   == SelectSeq(split(trimmed), NonBlank)
    IN  IF startsWith(trimmed, <<SLASH, SLASH>>)
           \/ startsWith(trimmed, <<SLASH, STAR>>)
        THEN "jsonc"
        ELSE IF hasComments(trimmed) THEN "jsonc"
        ELSE IF Len(lines) > 1
        THEN (IF JSONparse(lines[1]).kind = "value" THEN "jsonl"
              ELSE "SyntaxError")
        ELSE "json"

\* Mutant: one non-blank line that parses on its own is already JSONL.
detectJsonFormatOneLineJsonl(inp) ==
    LET trimmed == trimStart(inp)
        lines   == SelectSeq(split(trimmed), NonBlank)
    IN  IF startsWith(trimmed, <<SLASH, SLASH>>)
           \/ startsWith(trimmed, <<SLASH, STAR>>)
        THEN "jsonc"
        ELSE IF hasComments(trimmed) THEN "jsonc"
        ELSE IF Len(lines) > 0 /\ JSONparse(lines[1]).kind = "value"
        THEN "jsonl"
        ELSE "json"

detectJsonFormat(inp) ==
    LET trimmed == trimStart(inp)
        lines   == SelectSeq(split(trimmed), NonBlank)
    IN  IF startsWith(trimmed, <<SLASH, SLASH>>)
           \/ startsWith(trimmed, <<SLASH, STAR>>)
        THEN "jsonc"
        ELSE IF hasComments(trimmed) THEN "jsonc"
        ELSE IF Len(lines) > 1 /\ JSONparse(lines[1]).kind = "value"
        THEN "jsonl"
        ELSE "json"

\* Mutant: the jsonl case is missing and falls through to the standard parser.
parseFlexibleJsonNoJsonl(inp) ==
    LET format == detectJsonFormat(inp)
    IN  CASE format = "jsonc" -> parseJsonc(inp)
          [] format = "jsonl" -> JSONparse(inp)
          [] format = "json"  -> JSONparse(inp)

\* Mutant: a text without any non-blank line goes to parseJsonl.
parseFlexibleJsonBlankAsJsonl(inp) ==
    LET format == detectJsonFormat(inp)
    IN  IF Len(trim(inp)) = 0 THEN parseJsonl(inp)
        ELSE CASE format = "jsonc" -> parseJsonc(inp)
               [] format = "jsonl" -> parseJsonl(inp)
               [] format = "json"  -> JSONparse(inp)

parseFlexibleJson(inp) ==
    LET format == detectJsonFormat(inp)
    IN  CASE format = "jsonc" -> parseJsonc(inp)
          [] format = "jsonl" -> parseJsonl(inp)
          [] format = "json"  -> JSONparse(inp)

---------------------------------------------------------------------------
(* Calls in progress: each call has its own frame of local variables *)

\* The concurrent callers.
Tasks == {1, 2}

\* let result = ""; let i = 0 (stripJsonComments); let inString = false;
\* let i = 0 (hasComments); index and the array built by .map (parseJsonl).
InitialLocals ==
    [i |-> 0, result |-> <<>>, inString |-> FALSE, index |-> 0, acc |-> <<>>]

\* Mutant: the local variables are module-level, one set for all calls.
FrameOfShared(t) == 1

\* The frame that holds the local variables of the call of task t.
FrameOf(t) == t

IdleTask ==
    [fn |-> "none", inp |-> <<>>, pc |-> "idle", out |-> Returned(NoValue),
     overlapped |-> FALSE]

NoTasks ==
    /\ task = [t \in Tasks |-> IdleTask]
    /\ frame = [f \in Tasks |-> InitialLocals]

---------------------------------------------------------------------------
(* The rate limiter of the HTTP transport: configuration and store *)

\* config.rateLimitWindowMs ?? 60_000
DefaultWindowMs == 60000

\* config.rateLimitMax ?? 100
DefaultMax == 100

\* new Map(): no client has a record.
EmptyStore == [q \in {} |-> [count |-> 0, resetTime |-> 0]]

\* The transport with its defaults and no request handled.
NoLimiter ==
    /\ rateLimitStore = EmptyStore
    /\ now = 0
    /\ log = <<>>
    /\ windowMs = DefaultWindowMs
    /\ max = DefaultMax

---------------------------------------------------------------------------
(* executeQuery of the database client: configuration and idle state *)

\* process.env.COZO_QUERY_TIMEOUT || "30000"
DefaultQueryTimeoutMs == 30000

\* The calls of executeQuery in one behaviour.
Calls == {1, 2}

NoOutcome == [kind |-> "none", code |-> "", message |-> <<>>]

IdleExec == [pc |-> "idle", started |-> 0, settledAt |-> 0, outcome |-> NoOutcome]
NoDbRun == [state |-> "none", mutation |-> FALSE, settledAt |-> 0,
            error |-> [isError |-> FALSE, message |-> ""]]
NoTimer == [state |-> "none", due |-> 0]

\* The client loaded with its default and no query made.
NoQueries ==
    /\ QUERY_TIMEOUT_MS = DefaultQueryTimeoutMs
    /\ clock = 0
    /\ exec = [c \in Calls |-> IdleExec]
    /\ dbRun = [c \in Calls |-> NoDbRun]
    /\ timer = [c \in Calls |-> NoTimer]
    /\ stored = {}

---------------------------------------------------------------------------
(* The state machine: a caller holds a text, calls one of the functions   *)
(* on it and takes the outcome; call names the function whose outcome ret *)
(* holds, "none" between calls.                                           *)

Idle == Returned(NoValue)

Bool(b) == <<"bool", b>>

Init ==
    /\ input \in TextsOver(Alphabet, MaxLen)
    /\ call = "none"
    /\ ret = Idle
    /\ NoTasks
    /\ NoLimiter
    /\ NoQueries

\* The same caller, with texts over the scanner's characters only.
InitScan ==
    /\ input \in TextsOver(ScanAlphabet, MaxScanLen)
    /\ call = "none"
    /\ ret = Idle
    /\ NoTasks
    /\ NoLimiter
    /\ NoQueries

\* The same caller, with texts put together from comment markers,
\* whitespace and value characters.
InitParts ==
    /\ input \in {Concat(ps) : ps \in TextsOver(Parts, MaxParts)}
    /\ call = "none"
    /\ ret = Idle
    /\ NoTasks
    /\ NoLimiter
    /\ NoQueries

StripJsonComments ==
    /\ call = "none"
    /\ call' = "stripJsonComments"
    /\ ret' = Returned(TextOf(stripJsonComments(input)))
    /\ UNCHANGED <<input, taskVars, limiterVars, queryVars>>

ParseJsonc ==
    /\ call = "none"
    /\ call' = "parseJsonc"
    /\ ret' = parseJsonc(input)
    /\ UNCHANGED <<input, taskVars, limiterVars, queryVars>>

ParseJsonl ==
    /\ call = "none"
    /\ call' = "parseJsonl"
    /\ ret' = parseJsonl(input)
    /\ UNCHANGED <<input, taskVars, limiterVars, queryVars>>

HasComments ==
    /\ call = "none"
    /\ call' = "hasComments"
    /\ ret' = Returned(Bool(hasComments(input)))
    /\ UNCHANGED <<input, taskVars, limiterVars, queryVars>>

DetectJsonFormat ==
    /\ call = "none"
    /\ call' = "detectJsonFormat"
    /\ ret' = Returned(Label(detectJsonFormat(input)))
    /\ UNCHANGED <<input, taskVars, limiterVars, queryVars>>

ParseFlexibleJson ==
    /\ call = "none"
    /\ call' = "parseFlexibleJson"
    /\ ret' = parseFlexibleJson(input)
    /\ UNCHANGED <<input, taskVars, limiterVars, queryVars>>

\* The caller has taken the outcome and may call again.
Return ==
    /\ call # "none"
    /\ call' = "none"
    /\ ret' = Idle
    /\ UNCHANGED <<input, taskVars, limiterVars, queryVars>>

Next ==
    \/ StripJsonComments
    \/ ParseJsonc
    \/ ParseJsonl
    \/ HasComments
    \/ DetectJsonFormat
    \/ ParseFlexibleJson
    \/ Return

Spec == Init /\ [][Next]_vars

SpecScan == InitScan /\ [][Next]_vars

SpecParts == InitParts /\ [][Next]_vars

---------------------------------------------------------------------------
(* The scanners step by step.  A task calls one function on a text; every *)
(* action is one pass through a loop of the function (the loop test and,  *)
(* where it holds, the loop body), on the local variables of the call.    *)

\* The longest text of a lone call, and of each of two concurrent calls.
MaxLoopLen == 4
MaxTaskLen == 2

\* The characters of the texts of two concurrent calls.
TaskAlphabet == {DQUOTE, SLASH, STAR}

LoopTexts == TextsOver(ScanAlphabet, MaxLoopLen)
TaskTexts == TextsOver(TaskAlphabet, MaxTaskLen)

\* Where a call starts.
EntryOf(fn) ==
    CASE fn = "stripJsonComments" -> "outer"
      [] fn = "detectJsonFormat"  -> "top"
      [] fn = "parseJsonl"        -> "map"

\* The call goes on at pc with locals l; the call returns or throws o.
GoOn(pc, l) == [pc |-> pc, l |-> l, out |-> Returned(NoValue)]
Finish(l, o) == [pc |-> "done", l |-> l, out |-> o]

\* while (i < len) of stripJsonComments: the test and the branches of the
\* body up to the loop each of them enters.
OuterStep(x, l) ==
    IF l.i < Len(x)
    THEN LET ch == At(x, l.i)
         IN  IF ch = DQUOTE
             THEN GoOn("string", [l EXCEPT !.result = Append(@, DQUOTE),
                                           !.i = @ + 1])
             ELSE IF ch = SLASH /\ l.i + 1 < Len(x) /\ At(x, l.i + 1) = SLASH
             THEN GoOn("line", [l EXCEPT !.i = @ + 2])
             ELSE IF ch = SLASH /\ l.i + 1 < Len(x) /\ At(x, l.i + 1) = STAR
             THEN GoOn("block", [l EXCEPT !.i = @ + 2])
             ELSE GoOn("outer", [l EXCEPT !.result = Append(@, ch),
                                          !.i = @ + 1])
    ELSE Finish(l, Returned(TextOf(l.result)))

\* The string-literal loop; leaving it (break, or end of input) is
\* followed by the i++ behind the loop.
StringStep(x, l) ==
    IF l.i < Len(x)
    THEN LET sc == At(x, l.i)
             r1 == Append(l.result, sc)
         IN  IF sc = BACKSLASH
             THEN GoOn("string",
                       [l EXCEPT !.result = IF l.i + 1 < Len(x)
                                            THEN Append(r1, At(x, l.i + 1))
                                            ELSE r1,
                                 !.i = @ + 2])
             ELSE IF sc = DQUOTE
             THEN GoOn("outer", [l EXCEPT !.result = r1, !.i = @ + 1])
             ELSE GoOn("string", [l EXCEPT !.result = r1, !.i = @ + 1])
    ELSE GoOn("outer", [l EXCEPT !.i = @ + 1])

\* The line-comment loop.
LineStep(x, l) ==
    IF l.i < Len(x) /\ At(x, l.i) # LF
    THEN GoOn("line", [l EXCEPT !.i = @ + 1])
    ELSE GoOn("outer", l)

\* Mutant: the block-comment loop does not move the cursor.
BlockStepStuck(x, l) ==
    IF l.i + 1 < Len(x) /\ ~(At(x, l.i) = STAR /\ At(x, l.i + 1) = SLASH)
    THEN GoOn("block", l)
    ELSE GoOn("outer", [l EXCEPT !.i = @ + 2])

\* The block-comment loop; leaving it is followed by i += 2.
BlockStep(x, l) ==
    IF l.i + 1 < Len(x) /\ ~(At(x, l.i) = STAR /\ At(x, l.i + 1) = SLASH)
    THEN GoOn("block", [l EXCEPT !.i = @ + 1])
    ELSE GoOn("outer", [l EXCEPT !.i = @ + 2])

\* What detectJsonFormat does with the lines once no comment was found.
DetectByLines(x) ==
    LET lines == SelectSeq(split(trimStart(x)), NonBlank)
    IN  IF Len(lines) > 1 /\ JSONparse(lines[1]).kind = "value"
        THEN "jsonl" ELSE "json"

\* detectJsonFormat up to its call of hasComments.
TopStep(x, l) ==
    LET trimmed == trimStart(x)
    IN  IF startsWith(trimmed, <<SLASH, SLASH>>)
           \/ startsWith(trimmed, <<SLASH, STAR>>)
        THEN Finish(l, Returned(Label("jsonc")))
        ELSE GoOn("scan", [l EXCEPT !.i = 0, !.inString = FALSE])

\* The for loop of hasComments, called on the trimmed text; true returns
\* jsonc from detectJsonFormat, false goes on to the lines.
ScanStep(x, l) ==
    LET trimmed == trimStart(x)
    IN  IF l.i < Len(trimmed)
        THEN LET ch == At(trimmed, l.i)
             IN  IF l.inString
                 THEN IF ch = BACKSLASH
                      THEN GoOn("scan", [l EXCEPT !.i = @ + 2])
                      ELSE IF ch = DQUOTE
                      THEN GoOn("scan", [l EXCEPT !.inString = FALSE,
                                                  !.i = @ + 1])
                      ELSE GoOn("scan", [l EXCEPT !.i = @ + 1])
                 ELSE IF ch = DQUOTE
                      THEN GoOn("scan", [l EXCEPT !.inString = TRUE,
                                                  !.i = @ + 1])
                      ELSE IF ch = SLASH /\ l.i + 1 < Len(trimmed)
                              /\ At(trimmed, l.i + 1) \in {SLASH, STAR}
                      THEN Finish(l, Returned(Label("jsonc")))
                      ELSE GoOn("scan", [l EXCEPT !.i = @ + 1])
        ELSE GoOn("lines", l)

\* The rest of detectJsonFormat.
LinesStep(x, l) == Finish(l, Returned(Label(DetectByLines(x))))

\* One call of the callback of the final .map of parseJsonl.
MapStep(x, l) ==
    LET lines == JsonlLines(x)
    IN  IF l.index < Len(lines)
        THEN LET r == JSONparse(At(lines, l.index))
             IN  IF r.kind = "value"
                 THEN GoOn("map", [l EXCEPT !.acc = Append(@, r.value),
                                            !.index = @ + 1])
                 ELSE Finish(l, Thrown(l.index + 1, r.msg))
        ELSE Finish(l, Returned(Arr(l.acc)))

\* The locals of the call of task t.
LocalsOf(t) == frame[FrameOf(t)]

\* Task t is inside a call that has not returned.
InCall(t) == task[t].pc \notin {"idle", "done"}

\* Task t takes step s; every other task inside a call has now seen
\* another task run in between its own steps.
Take(t, s) ==
    /\ task' = [u \in Tasks |->
                   IF u = t THEN [task[t] EXCEPT !.pc = s.pc, !.out = s.out]
                   ELSE IF InCall(u) THEN [task[u] EXCEPT !.overlapped = TRUE]
                   ELSE task[u]]
    /\ frame' = [frame EXCEPT ![FrameOf(t)] = s.l]
    /\ UNCHANGED <<callerVars, limiterVars, queryVars>>

\* Task t calls fn on the text x: a new frame of locals.
TaskCall(t, fn, x) ==
    /\ task[t].pc = "idle"
    /\ task' = [u \in Tasks |->
                   IF u = t
                   THEN [fn |-> fn, inp |-> x, pc |-> EntryOf(fn),
                         out |-> Returned(NoValue), overlapped |-> FALSE]
                   ELSE IF InCall(u) THEN [task[u] EXCEPT !.overlapped = TRUE]
                   ELSE task[u]]
    /\ frame' = [frame EXCEPT ![FrameOf(t)] = InitialLocals]
    /\ UNCHANGED <<callerVars, limiterVars, queryVars>>

StripOuter(t) ==
    /\ task[t].pc = "outer"
    /\ Take(t, OuterStep(task[t].inp, LocalsOf(t)))

StripString(t) ==
    /\ task[t].pc = "string"
    /\ Take(t, StringStep(task[t].inp, LocalsOf(t)))

StripLine(t) ==
    /\ task[t].pc = "line"
    /\ Take(t, LineStep(task[t].inp, LocalsOf(t)))

StripBlock(t) ==
    /\ task[t].pc = "block"
    /\ Take(t, BlockStep(task[t].inp, LocalsOf(t)))

DetectTop(t) ==
    /\ task[t].pc = "top"
    /\ Take(t, TopStep(task[t].inp, LocalsOf(t)))

DetectScan(t) ==
    /\ task[t].pc = "scan"
    /\ Take(t, ScanStep(task[t].inp, LocalsOf(t)))

DetectLines(t) ==
    /\ task[t].pc = "lines"
    /\ Take(t, LinesStep(task[t].inp, LocalsOf(t)))

JsonlMapCallback(t) ==
    /\ task[t].pc = "map"
    /\ Take(t, MapStep(task[t].inp, LocalsOf(t)))

\* The caller of task t has taken the outcome; the frame is gone.
TaskReturn(t) ==
    /\ task[t].pc = "done"
    /\ task' = [task EXCEPT ![t] = IdleTask]
    /\ frame' = [frame EXCEPT ![FrameOf(t)] = InitialLocals]
    /\ UNCHANGED <<callerVars, limiterVars, queryVars>>

InitTasks ==
    /\ input = <<>>
    /\ call = "none"
    /\ ret = Idle
    /\ NoTasks
    /\ NoLimiter
    /\ NoQueries

\* One pass through a loop of the stripJsonComments call of task 1.
LoopStep ==
    \/ StripOuter(1)
    \/ StripString(1)
    \/ StripLine(1)
    \/ StripBlock(1)

\* A lone call of stripJsonComments.
NextLoop ==
    \/ \E x \in LoopTexts : TaskCall(1, "stripJsonComments", x)
    \/ LoopStep
    \/ TaskReturn(1)

\* Two tasks, each calling any of the three functions on its own text, the
\* steps of their calls in any order.
NextTasks ==
    \E t \in Tasks :
        \/ \E fn \in {"stripJsonComments", "detectJsonFormat", "parseJsonl"} :
               \E x \in TaskTexts : TaskCall(t, fn, x)
        \/ StripOuter(t)
        \/ StripString(t)
        \/ StripLine(t)
        \/ StripBlock(t)
        \/ DetectTop(t)
        \/ DetectScan(t)
        \/ DetectLines(t)
        \/ JsonlMapCallback(t)
        \/ TaskReturn(t)

\* A call runs to completion once started: the loop is not suspended.
SpecLoop == InitTasks /\ [][NextLoop]_vars /\ WF_vars(LoopStep)

SpecTasks == InitTasks /\ [][NextTasks]_vars

---------------------------------------------------------------------------
(* The rate limiter of the HTTP transport: requests of clients, handled   *)
(* one at a time by the middleware createRateLimiter(windowMs, max)       *)
(* returns, on the store of the module and the clock Date.now().          *)

\* Math.ceil((record.resetTime - now) / 1000): milliseconds per second.
MsPerSecond == 1000

\* res.status(429)
TooManyRequests == 429

\* The requests handled in one behaviour, the largest max the limiter is
\* created with, and the latest time on the clock.
MaxRequests == 4
MaxMax == 2
MaxNow == 2001

\* req.ip || req.socket.remoteAddress || "unknown"
IPs == {"10.0.0.1", "unknown"}

\* The windows the limiter is created with, and the times that pass
\* between two requests (none, where two requests follow each other).
Windows == {1000, 2000}
Advances == {999, 1000, 1001}

\* Math.ceil(a / b) for a >= 0.
Ceil(a, b) == IF a % b = 0 THEN a \div b ELSE (a \div b) + 1

\* rateLimitStore.set(ip, record)
StoreSet(store, ip, record) ==
    [q \in (DOMAIN store) \cup {ip} |-> IF q = ip THEN record ELSE store[q]]

\* What the middleware answers: next() called, or a status and a body.
Passed(store) ==
    [store |-> store, next |-> TRUE, status |-> 0, retryAfter |-> 0]
Limited(store, retryAfter) ==
    [store |-> store, next |-> FALSE, status |-> TooManyRequests,
     retryAfter |-> retryAfter]

\* Mutant: the limit is compared with >, one more request gets through.
rateLimiterOffByOne(store, ip, t, w, m) ==
    IF ip \notin DOMAIN store \/ t > store[ip].resetTime
    THEN Passed(StoreSet(store, ip, [count |-> 1, resetTime |-> t + w]))
    ELSE IF store[ip].count > m
    THEN Limited(store, Ceil(store[ip].resetTime - t, MsPerSecond))
    ELSE Passed([store EXCEPT ![ip].count = @ + 1])

\* Mutant: a record is never renewed once it exists.
rateLimiterNoReset(store, ip, t, w, m) ==
    IF ip \notin DOMAIN store
    THEN Passed(StoreSet(store, ip, [count |-> 1, resetTime |-> t + w]))
    ELSE IF store[ip].count >= m
    THEN Limited(store, IF store[ip].resetTime >= t
                        THEN Ceil(store[ip].resetTime - t, MsPerSecond) ELSE 0)
    ELSE Passed([store EXCEPT ![ip].count = @ + 1])

\* Mutant: a refused request is counted too.
rateLimiterCountsRefused(store, ip, t, w, m) ==
    IF ip \notin DOMAIN store \/ t > store[ip].resetTime
    THEN Passed(StoreSet(store, ip, [count |-> 1, resetTime |-> t + w]))
    ELSE IF store[ip].count >= m
    THEN Limited([store EXCEPT ![ip].count = @ + 1],
                 Ceil(store[ip].resetTime - t, MsPerSecond))
    ELSE Passed([store EXCEPT ![ip].count = @ + 1])

\* The middleware on the request of ip at time t, with window w and limit m.
rateLimiter(store, ip, t, w, m) ==
    IF ip \notin DOMAIN store \/ t > store[ip].resetTime
    THEN Passed(StoreSet(store, ip, [count |-> 1, resetTime |-> t + w]))
    ELSE IF store[ip].count >= m
    THEN Limited(store, Ceil(store[ip].resetTime - t, MsPerSecond))
    ELSE Passed([store EXCEPT ![ip].count = @ + 1])

\* createRateLimiter(windowMs, max), no request handled yet.
InitLimiter ==
    /\ input = <<>>
    /\ call = "none"
    /\ ret = Idle
    /\ NoTasks
    /\ rateLimitStore = EmptyStore
    /\ now = 0
    /\ log = <<>>
    /\ windowMs \in Windows
    /\ max \in 1..MaxMax
    /\ NoQueries

\* A request of ip comes in and goes through the middleware; log keeps
\* what became of it.
Request(ip) ==
    /\ Len(log) < MaxRequests
    /\ LET r == rateLimiter(rateLimitStore, ip, now, windowMs, max)
       IN  /\ rateLimitStore' = r.store
           /\ log' = Append(log, [ip |-> ip, at |-> now, next |-> r.next,
                                  status |-> r.status,
                                  retryAfter |-> r.retryAfter])
    /\ UNCHANGED <<now, windowMs, max, callerVars, taskVars, queryVars>>

\* Time passes.
Tick ==
    /\ \E d \in Advances :
           /\ now + d <= MaxNow
           /\ now' = now + d
    /\ UNCHANGED <<rateLimitStore, log, windowMs, max, callerVars, taskVars, queryVars>>

NextLimiter ==
    \/ \E ip \in IPs : Request(ip)
    \/ Tick

SpecLimiter == InitLimiter /\ [][NextLimiter]_vars

---------------------------------------------------------------------------
(* executeQuery: db.run raced against a timer.  The database call and the *)
(* timer settle on their own; what awaits them goes on in the same step   *)
(* (promise reactions run before the next timer or I/O callback).         *)

\* The largest timeout the client is loaded with and the latest time.
MaxTimeout == 2
MaxClock == 4

\* What db.run rejects with: an Error, or a value that is none.
DbErrors == {[isError |-> TRUE, message |-> "query parse error"],
             [isError |-> FALSE, message |-> "eval::named_field_not_found"]}

\* error instanceof Error ? error.message : String(error)
MessageOf(error) ==
    IF error.isError THEN <<error.message>> ELSE <<"[object Object]">>

\* new Error(`Query timeout (${QUERY_TIMEOUT_MS}ms)`)
TimeoutError(ms) == [isError |-> TRUE, message |-> "Query timeout", ms |-> ms]

\* The message of the timeout error.
TimeoutMessage(ms) == <<"Query timeout", ms>>

\* return { headers, rows, ok: true }
Resolved == [kind |-> "ok", code |-> "", message |-> <<>>]

\* throw new CozoError(message, "QUERY_ERROR")
CozoError(message) ==
    [kind |-> "CozoError", code |-> "QUERY_ERROR", message |-> message]

\* Mutant: the timer is set one millisecond too long.
TimerDueLate(t, ms) == t + ms + 1

\* setTimeout(..., QUERY_TIMEOUT_MS) at time t: when the callback is due.
TimerDue(t, ms) == t + ms

\* Mutant: the timeout aborts the database call.
DbRunAbortedOnTimeout(c) == [dbRun EXCEPT ![c].state = "cancelled"]

\* What the timeout does to the database call: nothing.
DbRunAfterTimeout(c) == dbRun

\* The await of call c ends with outcome o, if the call is still awaiting.
Settle(c, o) ==
    IF exec[c].pc = "awaiting"
    THEN [exec EXCEPT ![c].pc = IF o.kind = "ok" THEN "resolved" ELSE "rejected",
                      ![c].settledAt = clock,
                      ![c].outcome = o]
    ELSE exec

\* executeQuery(db, query, params) is called: the timer is set where a
\* timeout is configured, db.run is started, and the call awaits.
ExecuteQuery(c, mutation) ==
    /\ exec[c].pc = "idle"
    /\ \A b \in Calls : b < c => exec[b].pc # "idle"
    /\ exec' = [exec EXCEPT ![c].pc = "awaiting", ![c].started = clock]
    /\ timer' = IF QUERY_TIMEOUT_MS > 0
                THEN [timer EXCEPT ![c] = [state |-> "armed",
                                           due |-> TimerDue(clock, QUERY_TIMEOUT_MS)]]
                ELSE timer
    /\ dbRun' = [dbRun EXCEPT ![c].state = "running", ![c].mutation = mutation]
    /\ UNCHANGED <<QUERY_TIMEOUT_MS, clock, stored, callerVars, taskVars, limiterVars>>

\* db.run of call c resolves: its effect on the database is applied.
DbResolve(c) ==
    /\ dbRun[c].state = "running"
    /\ dbRun' = [dbRun EXCEPT ![c].state = "resolved", ![c].settledAt = clock]
    /\ stored' = IF dbRun[c].mutation THEN stored \cup {c} ELSE stored
    /\ exec' = Settle(c, Resolved)
    /\ UNCHANGED <<QUERY_TIMEOUT_MS, clock, timer, callerVars, taskVars, limiterVars>>

\* db.run of call c rejects.
DbReject(c, error) ==
    /\ dbRun[c].state = "running"
    /\ dbRun' = [dbRun EXCEPT ![c].state = "rejected", ![c].settledAt = clock,
                              ![c].error = error]
    /\ exec' = Settle(c, CozoError(MessageOf(error)))
    /\ UNCHANGED <<QUERY_TIMEOUT_MS, clock, timer, stored, callerVars, taskVars, limiterVars>>

\* The timer of call c runs its callback: the timeout promise rejects.
TimerFire(c) ==
    /\ timer[c].state = "armed"
    /\ clock >= timer[c].due
    /\ timer' = [timer EXCEPT ![c].state = "fired"]
    /\ exec' = Settle(c, CozoError(TimeoutMessage(QUERY_TIMEOUT_MS)))
    /\ dbRun' = DbRunAfterTimeout(c)
    /\ UNCHANGED <<QUERY_TIMEOUT_MS, clock, stored, callerVars, taskVars, limiterVars>>

\* A millisecond passes; a timer that is due runs first.
ClockTick ==
    /\ clock < MaxClock
    /\ \A c \in Calls : ~(timer[c].state = "armed" /\ clock >= timer[c].due)
    /\ clock' = clock + 1
    /\ UNCHANGED <<QUERY_TIMEOUT_MS, exec, dbRun, timer, stored,
                   callerVars, taskVars, limiterVars>>

\* The client module loaded with a timeout from the environment.
InitQuery ==
    /\ input = <<>>
    /\ call = "none"
    /\ ret = Idle
    /\ NoTasks
    /\ NoLimiter
    /\ QUERY_TIMEOUT_MS \in 0..MaxTimeout
    /\ clock = 0
    /\ exec = [c \in Calls |-> IdleExec]
    /\ dbRun = [c \in Calls |-> NoDbRun]
    /\ timer = [c \in Calls |-> NoTimer]
    /\ stored = {}

NextQuery ==
    \/ \E c \in Calls : \E mutation \in BOOLEAN : ExecuteQuery(c, mutation)
    \/ \E c \in Calls : DbResolve(c)
    \/ \E c \in Calls : \E error \in DbErrors : DbReject(c, error)
    \/ \E c \in Calls : TimerFire(c)
    \/ ClockTick

SpecQuery == InitQuery /\ [][NextQuery]_vars

---------------------------------------------------------------------------
(* Reference notions the properties are stated with *)

\* A comment marker starts at position k of x.
MarkerAt(x, k) ==
    /\ k + 1 < Len(x)
    /\ At(x, k) = SLASH
    /\ At(x, k + 1) \in {SLASH, STAR}

\* String-literal state before position k of x is read: literals are
\* delimited by double quotes, a backslash inside one escapes the next
\* character.
RECURSIVE StringMode(_, _)
StringMode(x, k) ==
    IF k = 0 THEN "code"
    ELSE LET m == StringMode(x, k - 1)
             c == At(x, k - 1)
         IN  CASE m = "code"    -> IF c = DQUOTE THEN "string" ELSE "code"
               [] m = "string"  -> IF c = BACKSLASH THEN "escaped"
                                   ELSE IF c = DQUOTE THEN "code" ELSE "string"
               [] m = "escaped" -> "string"

\* x holds a comment marker at a position outside every string literal.
MarkerOutsideString(x) ==
    \E k \in 0..(Len(x) - 1) : StringMode(x, k) = "code" /\ MarkerAt(x, k)

\* x holds a comment marker at a position inside a string literal.
MarkerInsideString(x) ==
    \E k \in 0..(Len(x) - 1) : StringMode(x, k) # "code" /\ MarkerAt(x, k)

\* The lines of x that are not empty after trimming, as they stand in x.
NonBlankLines(x) == SelectSeq(split(x), NonBlank)

IsValidJson(text) == JSONparse(text).kind = "value"

\* Lexical state before position k of x is read, comments included:
\* "line" inside a // comment (left at the line feed, which is code),
\* "open" between the two characters of a /* marker, "block" inside a
\* block comment, "close" between the two characters of its */.
RECURSIVE LexState(_, _)
LexState(x, k) ==
    IF k = 0 THEN "code"
    ELSE LET m    == LexState(x, k - 1)
             c    == At(x, k - 1)
             code == IF c = DQUOTE THEN "string"
                     ELSE IF MarkerAt(x, k - 1)
                          THEN (IF At(x, k) = SLASH THEN "line" ELSE "open")
                     ELSE "code"
         IN  CASE m = "code"    -> code
               [] m = "string"  -> IF c = BACKSLASH THEN "escaped"
                                   ELSE IF c = DQUOTE THEN "code" ELSE "string"
               [] m = "escaped" -> "string"
               [] m = "line"    -> IF c = LF THEN "code" ELSE "line"
               [] m = "open"    -> "block"
               [] m = "block"   -> IF c = STAR /\ k < Len(x) /\ At(x, k) = SLASH
                                   THEN "close" ELSE "block"
               [] m = "close"   -> "code"

\* Position k of x belongs to a comment.
InComment(x, k) ==
    LET m == LexState(x, k)
    IN  \/ m \in {"open", "block", "close"}
        \/ m = "line" /\ At(x, k) # LF
        \/ m = "code" /\ MarkerAt(x, k)

\* The characters of body, the text between an opening quote and the end
\* of a literal, hold no unescaped quote and no dangling backslash.
RECURSIVE IsLiteralBody(_, _)
IsLiteralBody(body, i) ==
    IF i >= Len(body) THEN TRUE
    ELSE IF At(body, i) = BACKSLASH
         THEN i + 1 < Len(body) /\ IsLiteralBody(body, i + 2)
    ELSE IF At(body, i) = DQUOTE THEN FALSE
    ELSE IsLiteralBody(body, i + 1)

\* lit is one whole string literal: opening quote, contents, closing quote.
IsLiteral(lit) ==
    /\ Len(lit) >= 2
    /\ lit[1] = DQUOTE
    /\ lit[Len(lit)] = DQUOTE
    /\ IsLiteralBody(Slice(lit, 1, Len(lit) - 1), 0)

\* The places a..b-1 of x where a whole string literal stands in code.
LiteralsOf(x) ==
    {p \in (0..Len(x)) \X (0..Len(x)) :
        /\ p[1] < p[2]
        /\ LexState(x, p[1]) = "code"
        /\ IsLiteral(Slice(x, p[1], p[2]))}

\* Position of the first double quote of x, Len(x) when there is none.
RECURSIVE FirstQuote(_, _)
FirstQuote(x, k) ==
    IF k < Len(x) /\ At(x, k) # DQUOTE THEN FirstQuote(x, k + 1) ELSE k

\* Number of consecutive backslashes that end just before position k and
\* start after position q.
RECURSIVE BackslashRun(_, _, _)
BackslashRun(x, q, k) ==
    IF k - 1 > q /\ At(x, k - 1) = BACKSLASH
    THEN 1 + BackslashRun(x, q, k - 1) ELSE 0

\* The quotes after the opening quote at q that an even number of
\* backslashes precedes: the first of them closes the literal.
UnescapedQuotes(x, q) ==
    {k \in (q + 1)..(Len(x) - 1) :
        At(x, k) = DQUOTE /\ BackslashRun(x, q, k) % 2 = 0}

Min(S) == CHOOSE k \in S : \A j \in S : k <= j

\* x opens its first string literal in code: no marker precedes the quote.
OpensLiteral(x) ==
    /\ FirstQuote(x, 0) < Len(x)
    /\ \A k \in 0..(FirstQuote(x, 0) - 1) : ~MarkerAt(x, k)

\* x consists of comments and whitespace only.
OnlyCommentsAndWhitespace(x) ==
    \A k \in 0..(Len(x) - 1) : InComment(x, k) \/ At(x, k) \in JsWhiteSpace

\* The 1-based places in lines of the lines that, trimmed, are not valid JSON.
Failing(lines) ==
    {k \in 1..Len(lines) : NonBlank(lines[k]) /\ ~IsValidJson(trim(lines[k]))}

\* The positions of x where a // marker stands in code.
LineMarkers(x) ==
    {k \in 0..(Len(x) - 1) :
        LexState(x, k) = "code" /\ MarkerAt(x, k) /\ At(x, k + 1) = SLASH}

\* The positions of x where a /* marker stands in code.
BlockMarkers(x) ==
    {k \in 0..(Len(x) - 1) :
        LexState(x, k) = "code" /\ MarkerAt(x, k) /\ At(x, k + 1) = STAR}

\* Position of the first line feed of x at or after k, Len(x) without one.
RECURSIVE NextLf(_, _)
NextLf(x, k) == IF k < Len(x) /\ At(x, k) # LF THEN NextLf(x, k + 1) ELSE k

\* The positions at or after k where a */ begins.
ClosersFrom(x, k) ==
    {j \in k..(Len(x) - 2) : At(x, j) = STAR /\ At(x, j + 1) = SLASH}

---------------------------------------------------------------------------
(* Properties *)

\* C1: parseFlexibleJson(x) has the outcome of the dedicated function that
\* detectJsonFormat(x) selects: parseJsonc for jsonc, parseJsonl for
\* jsonl, the standard parse for json.
C1_FacadeDispatch ==
    call = "parseFlexibleJson" =>
        LET format == detectJsonFormat(input)
        IN  /\ format = "jsonc" => ret = parseJsonc(input)
            /\ format = "jsonl" => ret = parseJsonl(input)
            /\ format = "json"  => ret = JSONparse(input)

\* A text labelled jsonl was parsed by the facade into a sequence.
C1_Witness ==
    /\ call = "parseFlexibleJson"
    /\ detectJsonFormat(input) = "jsonl"
    /\ ret.kind = "value"
    /\ ret.value[1] = "arr"
    /\ Len(ret.value[2]) = 2

\* C2: detectJsonFormat(x) is jsonc exactly when x holds a // or /* marker
\* outside every string literal (also when x has several non-blank lines
\* of which the first is valid JSON).
C2_JsoncIffMarkerOutsideString ==
    call = "detectJsonFormat" =>
        (ret.value = Label("jsonc") <=> MarkerOutsideString(input))

\* jsonc for a marker that follows a first line that is valid JSON on its own.
C2_Witness ==
    /\ call = "detectJsonFormat"
    /\ ret.value = Label("jsonc")
    /\ Len(NonBlankLines(input)) > 1
    /\ IsValidJson(NonBlankLines(input)[1])

\* C3 as claimed: jsonl exactly when x has no marker outside strings, more
\* than one non-blank line, and its first non-blank line is valid JSON.
C3_JsonlIffFirstLineOfInputValid ==
    call = "detectJsonFormat" =>
        (ret.value = Label("jsonl") <=>
            /\ ~MarkerOutsideString(input)
            /\ Len(NonBlankLines(input)) > 1
            /\ IsValidJson(NonBlankLines(input)[1]))

\* C3 as amended: jsonl exactly when x has no marker outside strings, more
\* than one non-blank line, and the first non-blank line of x without its
\* leading whitespace (trimStart) is valid JSON; otherwise, with no marker
\* outside strings, json.  Later lines are not examined.
C3_JsonlIffFirstLineOfTrimmedValid ==
    call = "detectJsonFormat" =>
        LET first == NonBlankLines(trimStart(input))[1]
            jsonl == /\ ~MarkerOutsideString(input)
                     /\ Len(NonBlankLines(input)) > 1
                     /\ IsValidJson(first)
        IN  /\ ret.value = Label("jsonl") <=> jsonl
            /\ (~jsonl /\ ~MarkerOutsideString(input)) => ret.value = Label("json")

\* jsonl with a later line that is not valid JSON, and json for several
\* lines whose first is not valid JSON on its own.
C3_Witness ==
    /\ call = "detectJsonFormat"
    /\ ret.value = Label("jsonl")
    /\ Len(NonBlankLines(input)) > 1
    /\ ~IsValidJson(NonBlankLines(input)[2])

\* C4: stripJsonComments copies every string literal to its output as it
\* stands, also between real comments: the output is the stripped text
\* before the literal, the literal, and the stripped text after it.  So
\* parseJsonc of a text whose comment markers are all inside string
\* literals gives what the standard parse of the text gives.
C4_StringLiteralsPreserved ==
    /\ call = "stripJsonComments" =>
           \A p \in LiteralsOf(input) :
               ret.value = TextOf(stripJsonComments(Slice(input, 0, p[1]))
                                  \o Slice(input, p[1], p[2])
                                  \o stripJsonComments(SliceFrom(input, p[2])))
    /\ (call = "parseJsonc" /\ ~MarkerOutsideString(input)) =>
           ret = JSONparse(input)

\* A literal holding a marker was copied, and a real comment after it removed.
C4_Witness ==
    /\ call = "stripJsonComments"
    /\ \E p \in LiteralsOf(input) :
           /\ MarkerInsideString(Slice(input, p[1], p[2]))
           /\ p[2] < Len(input)
           /\ InComment(input, p[2])
           /\ ret.value = TextOf(Slice(input, 0, p[2]))

\* C5: inside a string literal the character after a backslash is copied
\* and never interpreted, in stripJsonComments and in hasComments alike:
\* the literal ends at the first quote that an even number of backslashes
\* precedes, the stripper copies it up to there and resumes in code, the
\* detector looks for markers only after it; with no such quote the rest
\* of the text is inside the string.
C5_EscapedCharacterNeverInterpreted ==
    OpensLiteral(input) =>
        LET q      == FirstQuote(input, 0)
            quotes == UnescapedQuotes(input, q)
            rest   == SliceFrom(input, Min(quotes) + 1)
        IN  /\ call = "stripJsonComments" =>
                   ret.value = TextOf(IF quotes = {} THEN input
                                      ELSE Slice(input, 0, Min(quotes) + 1)
                                           \o stripJsonComments(rest))
            /\ call = "hasComments" =>
                   ret.value = Bool(quotes # {} /\ hasComments(rest))

\* A marker right after a literal that ends in an escaped backslash was
\* removed as a comment.
C5_Witness ==
    /\ call = "stripJsonComments"
    /\ OpensLiteral(input)
    /\ LET q  == FirstQuote(input, 0)
           qs == UnescapedQuotes(input, q)
       IN  /\ qs # {}
           /\ BackslashRun(input, q, Min(qs)) = 2
           /\ MarkerAt(input, Min(qs) + 1)
           /\ ret.value = TextOf(Slice(input, 0, Min(qs) + 1))

\* C6 as claimed: the line number of a parseJsonl failure is the 1-based
\* place of the failing line in input.split("\n"), blank lines counted.
C6_LineNumberAgainstRawSplit ==
    (call = "parseJsonl" /\ ret.kind = "SyntaxError") =>
        ret.line = Min(Failing(split(input)))

\* C7: when every non-blank line of x is valid JSON, parseJsonl(x) returns
\* one value per non-blank line, in the order of the lines; blank lines
\* contribute nothing.
C7_OneValuePerNonBlankLine ==
    LET lines == NonBlankLines(input)
    IN  (call = "parseJsonl" /\ \A k \in 1..Len(lines) : IsValidJson(lines[k]))
            => ret = Returned(Arr([k \in 1..Len(lines) |->
                                      JSONparse(lines[k]).value]))

\* Two values from a text of three lines, one of them blank.
C7_Witness ==
    /\ call = "parseJsonl"
    /\ ret.kind = "value"
    /\ Len(ret.value[2]) = 2
    /\ Len(split(input)) = 3

\* C8 as claimed: if a non-blank line of the input is not valid JSON,
\* parseJsonl returns nothing and throws a SyntaxError for the earliest
\* such line, with the parser's message.
C8_FailsWhenALineOfInputIsInvalid ==
    LET lines == NonBlankLines(input)
        bad   == {k \in 1..Len(lines) : ~IsValidJson(lines[k])}
    IN  (call = "parseJsonl" /\ bad # {}) =>
            /\ ret.kind = "SyntaxError"
            /\ ret.value = NoValue
            /\ ret.line = Min(bad)
            /\ ret.msg \in {JSONparse(lines[Min(bad)]).msg,
                            JSONparse(trim(lines[Min(bad)])).msg}

\* C8 as amended: if a non-blank line of the input, once trimmed, is not
\* valid JSON, parseJsonl returns nothing and throws a SyntaxError for
\* the earliest such line, with the parser's message for the trimmed line.
C8_FailsWhenATrimmedLineIsInvalid ==
    LET lines == NonBlankLines(input)
        bad   == Failing(lines)
    IN  (call = "parseJsonl" /\ bad # {}) =>
            /\ ret.kind = "SyntaxError"
            /\ ret.value = NoValue
            /\ ret.line = Min(bad)
            /\ ret.msg = JSONparse(trim(lines[Min(bad)])).msg

\* Of two failing lines the earlier is reported, after a line that parsed.
C8_Witness ==
    /\ call = "parseJsonl"
    /\ ret.kind = "SyntaxError"
    /\ Cardinality(Failing(NonBlankLines(input))) >= 1
    /\ ret.line = 2
    /\ Len(NonBlankLines(input)) >= 2

\* C9: parseJsonc of a text that is only comments and whitespace throws a
\* SyntaxError and returns no value.
C9_CommentsOnlyIsSyntaxError ==
    (call = "parseJsonc" /\ OnlyCommentsAndWhitespace(input)) =>
        ret.kind = "SyntaxError" /\ ret.value = NoValue

\* A space, a line comment, a line feed and an unterminated block comment.
C9_Witness ==
    /\ call = "parseJsonc"
    /\ OnlyCommentsAndWhitespace(input)
    /\ \E k \in 0..(Len(input) - 1) : At(input, k) = SP /\ ~InComment(input, k)
    /\ \E k \in 0..(Len(input) - 1) : LexState(input, k) = "line"
    /\ \E k \in 0..(Len(input) - 1) : At(input, k) = LF /\ ~InComment(input, k)
    /\ LexState(input, Len(input)) = "block"
    /\ ret.kind = "SyntaxError"

\* C10: stripJsonComments returns a text with no marker outside string
\* literals unchanged, also with an unterminated string or a backslash at
\* the end of one.
C10_NoCommentsUnchanged ==
    (call = "stripJsonComments" /\ ~MarkerOutsideString(input)) =>
        ret.value = TextOf(input)

\* An unterminated string holding a marker and ending in a backslash.
C10_Witness ==
    /\ call = "stripJsonComments"
    /\ ~MarkerOutsideString(input)
    /\ MarkerInsideString(input)
    /\ StringMode(input, Len(input)) = "escaped"
    /\ ret.value = TextOf(input)

\* C11: for a // in code, stripJsonComments omits the characters from the
\* marker up to, not including, the next line feed (or to the end of the
\* input); the line feed is emitted and scanning resumes there in code.
C11_LineCommentUpToLineFeed ==
    call = "stripJsonComments" =>
        \A k \in LineMarkers(input) :
            ret.value = TextOf(stripJsonComments(Slice(input, 0, k))
                               \o stripJsonComments(
                                      SliceFrom(input, NextLf(input, k + 2))))

\* A line comment with text in it, ended by a line feed that was emitted.
C11_Witness ==
    /\ call = "stripJsonComments"
    /\ \E k \in LineMarkers(input) :
           /\ k > 0
           /\ NextLf(input, k + 2) > k + 2
           /\ NextLf(input, k + 2) < Len(input)
           /\ ret.value = TextOf(Slice(input, 0, k)
                                 \o SliceFrom(input, NextLf(input, k + 2)))

\* C12: for a /* in code, stripJsonComments omits everything from the
\* marker through the first */ that begins after the two opening
\* characters, both markers included; /*/ does not close itself.
C12_BlockCommentThroughCloser ==
    call = "stripJsonComments" =>
        \A k \in BlockMarkers(input) :
            ClosersFrom(input, k + 2) # {} =>
                ret.value = TextOf(stripJsonComments(Slice(input, 0, k))
                                   \o stripJsonComments(
                                          SliceFrom(input,
                                              Min(ClosersFrom(input, k + 2)) + 2)))

\* A block comment that begins /*/ was removed through its later */.
C12_Witness ==
    /\ call = "stripJsonComments"
    /\ \E k \in BlockMarkers(input) :
           /\ k > 0
           /\ ClosersFrom(input, k + 2) # {}
           /\ At(input, k + 2) = SLASH
           /\ ret.value = TextOf(Slice(input, 0, k))

\* The characters of x from position k on that belong to no comment.
RECURSIVE OutsideComments(_, _)
OutsideComments(x, k) ==
    IF k >= Len(x) THEN <<>>
    ELSE (IF InComment(x, k) THEN <<>> ELSE <<At(x, k)>>)
         \o OutsideComments(x, k + 1)

\* The three format labels.
JsonFormats == {Label("json"), Label("jsonc"), Label("jsonl")}

\* x reaches the trial parse of detectJsonFormat and the parse fails.
TrialParseFails(x) ==
    /\ ~MarkerOutsideString(x)
    /\ Len(NonBlankLines(trimStart(x))) > 1
    /\ ~IsValidJson(NonBlankLines(trimStart(x))[1])

\* C14: detectJsonFormat is total: on every text, the empty one, blank
\* ones and invalid ones included, it returns one of json, jsonc, jsonl and
\* raises nothing; where the trial parse of the first line fails, the
\* failure is swallowed and the label is json.
C14_DetectIsTotal ==
    call = "detectJsonFormat" =>
        /\ ret.kind = "value"
        /\ ret.value \in JsonFormats
        /\ TrialParseFails(input) => ret.value = Label("json")

\* A text of several lines whose first line fails the trial parse, and the
\* whole of which is no valid JSON either, was labelled json.
C14_Witness ==
    /\ call = "detectJsonFormat"
    /\ TrialParseFails(input)
    /\ ~IsValidJson(input)
    /\ ret = Returned(Label("json"))

\* x has exactly one non-blank line and no marker outside string literals.
OneLineNoMarker(x) ==
    /\ Len(NonBlankLines(x)) = 1
    /\ ~MarkerOutsideString(x)

\* C15: for a text with exactly one non-blank line and no comment marker
\* outside string literals, detectJsonFormat returns json, so
\* parseFlexibleJson has the outcome of the standard parse (the value
\* itself), whereas parseJsonl returns a sequence of one element, which is
\* that value where the text is valid JSON.
C15_OneLineIsJsonNotJsonl ==
    OneLineNoMarker(input) =>
        /\ call = "detectJsonFormat" => ret.value = Label("json")
        /\ call = "parseFlexibleJson" => ret = JSONparse(input)
        /\ (call = "parseJsonl" /\ ret.kind = "value") =>
               /\ ret.value[1] = "arr"
               /\ Len(ret.value[2]) = 1
               /\ IsValidJson(input) => ret.value[2][1] = JSONparse(input).value

\* parseJsonl returned the one-element sequence of the value that
\* parseFlexibleJson returns bare for the same one-line text.
C15_Witness ==
    /\ call = "parseJsonl"
    /\ OneLineNoMarker(input)
    /\ detectJsonFormat(input) = "json"
    /\ parseFlexibleJson(input).kind = "value"
    /\ parseFlexibleJson(input).value[1] = "arr"
    /\ ret = Returned(Arr(<<parseFlexibleJson(input).value>>))

\* C16 as claimed: a text of comments and whitespace only strips to the
\* empty text.
C16_CommentsOnlyStripsToEmpty ==
    (call = "stripJsonComments" /\ OnlyCommentsAndWhitespace(input)) =>
        ret.value = TextOf(<<>>)

\* C16 as amended: a text of comments and whitespace only strips to its
\* whitespace outside the comments, in order (the line feed that ends a //
\* comment included); the result is empty only where there is none.
C16_CommentsOnlyStripsToWhitespace ==
    (call = "stripJsonComments" /\ OnlyCommentsAndWhitespace(input)) =>
        /\ ret.value = TextOf(OutsideComments(input, 0))
        /\ \A k \in 1..Len(ret.value[2]) : ret.value[2][k] \in JsWhiteSpace

\* A text with a block comment between whitespace was stripped to the two
\* whitespace characters.
C16_Witness ==
    /\ call = "stripJsonComments"
    /\ OnlyCommentsAndWhitespace(input)
    /\ BlockMarkers(input) # {}
    /\ Len(ret.value[2]) = 2
    /\ ret.value[2] # input

\* The outcome of fn on x as one whole call.
Alone(fn, x) ==
    CASE fn = "stripJsonComments" -> Returned(TextOf(stripJsonComments(x)))
      [] fn = "detectJsonFormat"  -> Returned(Label(detectJsonFormat(x)))
      [] fn = "parseJsonl"        -> parseJsonl(x)

\* The outcome the call of task t comes to when it goes on undisturbed
\* from where it stands, on the locals l.
FromHere(t, l) ==
    LET x  == task[t].inp
        pc == task[t].pc
    IN  CASE pc = "done"   -> task[t].out
          [] pc = "outer"  ->
                Returned(TextOf(StripLoop(x, [i |-> l.i, result |-> l.result])))
          [] pc = "string" ->
                LET s == StringLoop(x, l.i, l.result)
                IN  Returned(TextOf(StripLoop(x, [i |-> s.i + 1,
                                                  result |-> s.result])))
          [] pc = "line"   ->
                Returned(TextOf(StripLoop(x, [i |-> LineCommentLoop(x, l.i),
                                              result |-> l.result])))
          [] pc = "block"  ->
                Returned(TextOf(StripLoop(x, [i |-> BlockCommentLoop(x, l.i) + 2,
                                              result |-> l.result])))
          [] pc = "top"    -> Returned(Label(detectJsonFormat(x)))
          [] pc = "scan"   ->
                Returned(Label(IF HasCommentsLoop(trimStart(x), l.i, l.inString)
                               THEN "jsonc" ELSE DetectByLines(x)))
          [] pc = "lines"  -> Returned(Label(DetectByLines(x)))
          [] pc = "map"    -> JsonlMap(JsonlLines(x), l.index, l.acc)

\* A measure of what is left of the stripJsonComments call of task t.
Variant(t) ==
    IF task[t].pc = "done" THEN 0
    ELSE 2 * ((Len(task[t].inp) + 3) - LocalsOf(t).i)
         + (IF task[t].pc = "outer" THEN 0 ELSE 1)

\* The loop that task t stands in finds its condition true.
IterationDue(t) ==
    LET x == task[t].inp
        i == LocalsOf(t).i
    IN  \/ task[t].pc \in {"outer", "string"} /\ i < Len(x)
        \/ task[t].pc = "line" /\ i < Len(x) /\ At(x, i) # LF
        \/ task[t].pc = "block" /\ i + 1 < Len(x)
                                /\ ~(At(x, i) = STAR /\ At(x, i + 1) = SLASH)

\* C13: stripJsonComments terminates on every text, unterminated block
\* comments, unterminated string literals and a final lone backslash
\* included: every pass through a loop whose condition holds moves the
\* cursor forward, no step moves it back, a measure bounded below goes down
\* with every step, and the call comes to its return; where a /* in code
\* has no */ behind it, what is returned is the stripped text before the
\* /*, and nothing is thrown.
C13_StripTerminates ==
    /\ [][(InCall(1) /\ taskVars' # taskVars) =>
            /\ IterationDue(1) => LocalsOf(1)'.i > LocalsOf(1).i
            /\ LocalsOf(1)'.i >= LocalsOf(1).i
            /\ LocalsOf(1)'.i <= Len(task[1].inp) + 2
            /\ Variant(1)' < Variant(1)]_vars
    /\ [](task[1].pc = "done" =>
            /\ task[1].out.kind = "value"
            /\ \A k \in BlockMarkers(task[1].inp) :
                   ClosersFrom(task[1].inp, k + 2) = {} =>
                       task[1].out.value =
                           TextOf(stripJsonComments(Slice(task[1].inp, 0, k))))
    /\ (InCall(1) ~> task[1].pc = "done")

\* The call has returned the text before a /* that nothing closes and that
\* more text follows.
C13_Witness ==
    /\ task[1].pc = "done"
    /\ \E k \in BlockMarkers(task[1].inp) :
           /\ ClosersFrom(task[1].inp, k + 2) = {}
           /\ k > 0
           /\ k + 2 < Len(task[1].inp)
           /\ task[1].out = Returned(TextOf(Slice(task[1].inp, 0, k)))

\* C17: no state is kept between calls, the cursor and the in-string flag
\* belong to one call: with two calls of stripJsonComments,
\* detectJsonFormat or parseJsonl interleaved step by step, every call
\* stands, after every step of either, where it stands when run alone, and
\* returns what the function returns on its text as one whole call, the
\* same at every call.
C17_CallsDoNotInterfere ==
    \A t \in Tasks :
        task[t].pc # "idle" => FromHere(t, LocalsOf(t)) = Alone(task[t].fn, task[t].inp)

\* Both calls have returned, on different texts, each having seen steps of
\* the other between its own, and one of them had found a string literal.
C17_Witness ==
    /\ task[1].pc = "done" /\ task[2].pc = "done"
    /\ task[1].overlapped /\ task[2].overlapped
    /\ task[1].inp # task[2].inp
    /\ task[1].fn = "stripJsonComments"
    /\ task[1].out = Returned(TextOf(<<DQUOTE, SLASH>>))
    /\ task[2].fn = "detectJsonFormat"
    /\ Len(task[2].inp) = MaxTaskLen

\* The latest request before the k-th of the log by the same client, 0
\* without one.
Prev(k) ==
    LET earlier == {j \in 1..(k - 1) : log[j].ip = log[k].ip}
    IN  IF earlier = {} THEN 0
        ELSE CHOOSE j \in earlier : \A h \in earlier : h <= j

\* The time the window of the k-th request of the log began: a client's
\* first request opens a window, and so does each request that comes more
\* than windowMs after the beginning of the window before it.
RECURSIVE WindowStart(_)
WindowStart(k) ==
    LET j == Prev(k)
    IN  IF j = 0 THEN log[k].at
        ELSE IF log[k].at > WindowStart(j) + windowMs THEN log[k].at
        ELSE WindowStart(j)

\* The place of the k-th request among the requests of its window.
Rank(k) ==
    Cardinality({j \in 1..k : /\ log[j].ip = log[k].ip
                              /\ WindowStart(j) = WindowStart(k)})

\* The number of whole seconds that cover ms milliseconds.
SecondsCovering(ms) ==
    CHOOSE n \in 0..ms : /\ n * MsPerSecond >= ms
                         /\ \A m \in 0..(n - 1) : m * MsPerSecond < ms

\* The requests of ip that were passed on at a time from a up to, not
\* including, a + windowMs.
PassedWithin(ip, a) ==
    {j \in 1..Len(log) : /\ log[j].ip = ip
                         /\ log[j].next
                         /\ a <= log[j].at
                         /\ log[j].at < a + windowMs}

\* C18 as claimed: the limiter is a sliding window: in every interval of
\* length windowMs, wherever it begins (here: at each request), at most
\* max requests of one client are passed on.
C18_SlidingWindow ==
    \A k \in 1..Len(log) :
        Cardinality(PassedWithin(log[k].ip, log[k].at)) <= max

C20_AdmittedAfterReset ==
    \A k \in 1..Len(log) :
        LET j == Prev(k)
        IN  (j # 0 /\ log[k].at > WindowStart(j) + windowMs) =>
                /\ log[k].next
                /\ WindowStart(k) = log[k].at
                /\ (\A h \in (k + 1)..Len(log) : log[h].ip # log[k].ip) =>
                       rateLimitStore[log[k].ip] =
                           [count |-> 1, resetTime |-> log[k].at + windowMs]

\* A client was refused, and its next request, after the resetTime, was
\* passed on and is the latest of that client.
C20_Witness ==
    \E k \in 1..Len(log) :
        /\ Prev(k) # 0
        /\ ~log[Prev(k)].next
        /\ log[k].at > WindowStart(Prev(k)) + windowMs
        /\ log[k].next
        /\ rateLimitStore[log[k].ip].count = 1

\* The output text of the stripJsonComments call whose outcome ret holds.
Stripped == ret.value[2]

\* C22: parseFlexibleJson extends the standard parse conservatively: a
\* text the standard parser accepts is labelled json, never jsonl or jsonc,
\* and parseFlexibleJson returns the value of the standard parser.
C22_ConservativeOverJson ==
    IsValidJson(input) =>
        /\ call = "detectJsonFormat" => ret.value = Label("json")
        /\ call = "parseFlexibleJson" => ret.kind = "value" /\ ret = JSONparse(input)

\* A valid text of several non-blank lines was parsed by the facade.
C22_Witness ==
    /\ call = "parseFlexibleJson"
    /\ IsValidJson(input)
    /\ Len(NonBlankLines(input)) > 1
    /\ ret.kind = "value"

\* C23: the scanner of the detector and the stripper agree on every text:
\* hasComments(x) is true exactly when stripJsonComments(x) differs from
\* x, and x is labelled jsonc exactly when stripping changes it.
C23_ScannerAgreesWithStripper ==
    /\ call = "hasComments" =>
           (ret.value = Bool(TRUE) <=> stripJsonComments(input) # input)
    /\ call = "detectJsonFormat" =>
           (ret.value = Label("jsonc") <=> stripJsonComments(input) # input)

\* hasComments answered false for a text whose only markers are inside a
\* string literal, and which the stripper leaves as it is.
C23_Witness ==
    /\ call = "hasComments"
    /\ ret.value = Bool(FALSE)
    /\ MarkerInsideString(input)
    /\ stripJsonComments(input) = input
    /\ Len(input) = MaxScanLen

\* C24: stripJsonComments is idempotent: stripping its output changes
\* nothing; taking a comment out never joins two characters to a new //
\* or /* outside a string literal, the output holds no marker outside
\* string literals.
C24_StripIsIdempotent ==
    call = "stripJsonComments" =>
        /\ stripJsonComments(Stripped) = Stripped
        /\ ~MarkerOutsideString(Stripped)

\* A block comment between two pieces of text was taken out and the pieces
\* were joined.
C24_Witness ==
    /\ call = "stripJsonComments"
    /\ \E k \in BlockMarkers(input) :
           /\ k > 0
           /\ ClosersFrom(input, k + 2) # {}
           /\ Min(ClosersFrom(input, k + 2)) + 2 < Len(input)
           /\ Stripped = Slice(input, 0, k)
                  \o SliceFrom(input, Min(ClosersFrom(input, k + 2)) + 2)
           /\ Stripped[Len(Stripped)] = SLASH

\* C25: on the jsonl branch of parseFlexibleJson the line that
\* detectJsonFormat test-parsed is the line parseJsonl parses first (up to
\* the whitespace at its end), so a failure on that branch is reported for
\* line 2 or a later line, never for line 1.
C25_JsonlFailureNotOnLineOne ==
    (call = "parseFlexibleJson" /\ detectJsonFormat(input) = "jsonl") =>
        /\ JsonlLines(input)[1] = trim(NonBlankLines(trimStart(input))[1])
        /\ ret.kind = "SyntaxError" => ret.line >= 2

\* The facade failed on the jsonl branch, on line 2.
C25_Witness ==
    /\ call = "parseFlexibleJson"
    /\ detectJsonFormat(input) = "jsonl"
    /\ ret.kind = "SyntaxError"
    /\ ret.line = 2

\* C26: whenever parseFlexibleJson returns through the jsonl branch the
\* sequence has at least two elements: the non-blank lines detectJsonFormat
\* counts on the text without its leading whitespace are as many as the
\* lines parseJsonl parses on the text as given.
C26_JsonlHasTwoElements ==
    (call = "parseFlexibleJson" /\ detectJsonFormat(input) = "jsonl") =>
        /\ Len(NonBlankLines(trimStart(input))) = Len(JsonlLines(input))
        /\ ret.kind = "value" =>
               /\ ret.value[1] = "arr"
               /\ Len(ret.value[2]) >= 2
               /\ Len(ret.value[2]) = Len(JsonlLines(input))

\* A text that begins with whitespace came back from the jsonl branch as a
\* sequence of two values.
C26_Witness ==
    /\ call = "parseFlexibleJson"
    /\ detectJsonFormat(input) = "jsonl"
    /\ trimStart(input) # input
    /\ ret.kind = "value"
    /\ Len(ret.value[2]) = 2

\* x is empty or holds whitespace only.
Blank(x) == \A k \in 1..Len(x) : x[k] \in JsWhiteSpace

\* C27: on an empty or whitespace-only text parseJsonl returns the empty
\* sequence and raises nothing, while parseFlexibleJson, the text being
\* labelled json, fails with a SyntaxError; parseFlexibleJson never returns
\* an empty sequence from its jsonl branch.
C27_BlankTextEmptyOrError ==
    /\ Blank(input) =>
           /\ call = "parseJsonl" => ret = Returned(Arr(<<>>))
           /\ call = "detectJsonFormat" => ret.value = Label("json")
           /\ call = "parseFlexibleJson" => ret.kind = "SyntaxError"
    /\ (call = "parseFlexibleJson" /\ detectJsonFormat(input) = "jsonl") =>
           ret # Returned(Arr(<<>>))

\* parseJsonl returned the empty sequence for blank lines, a text on
\* which parseFlexibleJson fails.
C27_Witness ==
    /\ call = "parseJsonl"
    /\ Blank(input)
    /\ Len(split(input)) > 1
    /\ ret = Returned(Arr(<<>>))
    /\ parseFlexibleJson(input).kind = "SyntaxError"

\* a is a subsequence of b: the characters of a from place i on are found
\* in b from place j on, in order.
RECURSIVE IsSubsequenceFrom(_, _, _, _)
IsSubsequenceFrom(a, b, i, j) ==
    IF i > Len(a) THEN TRUE
    ELSE IF j > Len(b) THEN FALSE
    ELSE IF a[i] = b[j] THEN IsSubsequenceFrom(a, b, i + 1, j + 1)
    ELSE IsSubsequenceFrom(a, b, i, j + 1)

\* C28: stripJsonComments only deletes: the output is a subsequence of the
\* input and no longer than it, it holds every character that is outside
\* all comments exactly once and in order, and nothing else.
C28_StripOnlyDeletes ==
    call = "stripJsonComments" =>
        /\ Stripped = OutsideComments(input, 0)
        /\ IsSubsequenceFrom(Stripped, input, 1, 1)
        /\ Len(Stripped) <= Len(input)

\* A line comment was deleted from a text that also holds a string
\* literal, which was kept.
C28_Witness ==
    /\ call = "stripJsonComments"
    /\ LineMarkers(input) # {}
    /\ Len(Stripped) >= 3
    /\ Stripped[1] = DQUOTE
    /\ Len(Stripped) < Len(input)

\* C29: after any sequence of requests every record of the store has
\* 1 <= count <= max (max being at least 1), and a request refused with
\* 429 leaves the store as it was: count and resetTime of its client and
\* the records of the other clients, so that refused requests do not
\* prolong the lockout.
C29_CountBoundedStoreUntouchedOnRefusal ==
    /\ [](\A ip \in DOMAIN rateLimitStore :
              /\ rateLimitStore[ip].count >= 1
              /\ rateLimitStore[ip].count <= max)
    /\ [][(log' # log /\ ~log'[Len(log')].next) =>
              rateLimitStore' = rateLimitStore]_vars

\* A client at its limit was refused twice in a row while another client
\* has a record of its own.
C29_Witness ==
    /\ Len(log) >= 3
    /\ ~log[Len(log)].next
    /\ ~log[Len(log) - 1].next
    /\ log[Len(log)].ip = log[Len(log) - 1].ip
    /\ log[Len(log)].at > log[Len(log) - 1].at
    /\ rateLimitStore[log[Len(log)].ip].count = max
    /\ DOMAIN rateLimitStore = IPs

\* Call c of executeQuery was rejected with the timeout error.
TimedOut(c) ==
    /\ exec[c].pc = "rejected"
    /\ exec[c].outcome.message = TimeoutMessage(QUERY_TIMEOUT_MS)

\* The database call of c had settled before time t.
DbSettledBefore(c, t) ==
    dbRun[c].state \in {"resolved", "rejected"} /\ dbRun[c].settledAt < t

\* C21: with QUERY_TIMEOUT_MS greater than 0 executeQuery settles no later
\* than QUERY_TIMEOUT_MS after the call; where the database call has not
\* settled by then it rejects with a CozoError of code QUERY_ERROR and a
\* 'Query timeout' message; a failure of the database call is a CozoError
\* of code QUERY_ERROR too, with the message of the failure; with
\* QUERY_TIMEOUT_MS = 0 there is no timeout.
C21_SettlesWithinTimeout ==
    \A c \in Calls :
        LET e        == exec[c]
            deadline == e.started + QUERY_TIMEOUT_MS
        IN  /\ (QUERY_TIMEOUT_MS > 0 /\ e.pc = "awaiting") => clock <= deadline
            /\ (QUERY_TIMEOUT_MS > 0 /\ e.pc \in {"resolved", "rejected"}) =>
                   e.settledAt <= deadline
            /\ (QUERY_TIMEOUT_MS > 0 /\ e.pc # "idle" /\ clock > deadline
                    /\ ~DbSettledBefore(c, deadline + 1)) => TimedOut(c)
            /\ TimedOut(c) =>
                   /\ QUERY_TIMEOUT_MS > 0
                   /\ e.settledAt = deadline
                   /\ ~DbSettledBefore(c, deadline)
            /\ e.pc = "rejected" =>
                   /\ e.outcome.kind = "CozoError"
                   /\ e.outcome.code = "QUERY_ERROR"
                   /\ ~TimedOut(c) =>
                          /\ dbRun[c].state = "rejected"
                          /\ e.outcome.message = MessageOf(dbRun[c].error)
            /\ (dbRun[c].state = "rejected" /\ e.pc # "awaiting") =>
                   e.pc = "rejected"
            /\ e.pc = "resolved" => dbRun[c].state = "resolved"
            /\ QUERY_TIMEOUT_MS = 0 =>
                   /\ timer[c].state = "none"
                   /\ ~TimedOut(c)
                   /\ dbRun[c].state = "running" => e.pc = "awaiting"

\* A call was rejected with the timeout error at its deadline, its
\* database call still running after it; an earlier call failed with the
\* error of the database.
C21_Witness ==
    /\ TimedOut(2)
    /\ exec[2].started > 0
    /\ dbRun[2].state = "running"
    /\ clock > exec[2].settledAt
    /\ exec[1].pc = "rejected"
    /\ exec[1].outcome.message = <<"[object Object]">>

\* C30: a timeout does not cancel the database call: after executeQuery
\* has rejected with 'Query timeout' the db.run it started is still
\* running, or has completed, and while running it can complete; when it
\* completes its mutation is applied, so that the caller was told of a
\* failure and the mutation is there.
C30_TimeoutDoesNotCancel ==
    \A c \in Calls :
        TimedOut(c) =>
            /\ dbRun[c].state \in {"running", "resolved", "rejected"}
            /\ dbRun[c].state = "running" => ENABLED DbResolve(c)
            /\ (dbRun[c].state = "resolved" /\ dbRun[c].mutation) => c \in stored

\* The caller was told that the query timed out, and its mutation was
\* applied afterwards.
C30_Witness ==
    \E c \in Calls :
        /\ TimedOut(c)
        /\ dbRun[c].mutation
        /\ dbRun[c].state = "resolved"
        /\ dbRun[c].settledAt > exec[c].settledAt
        /\ c \in stored


=============================================================================
